---- MODULE Spec2Model ----
(***************************************************************************)
(* Model of the customer microservice: the Customer entity with its        *)
(* validation rules (src/src/customer.rs) and the CustomerService request  *)
(* handlers that share one VecPack<Customer> behind a tokio Mutex          *)
(* (src/src/main.rs).                                                      *)
(*                                                                         *)
(* Option<T> is a sequence of length 0 (None) or 1 (Some).  Every request  *)
(* is served by a handler task of its own with a program counter; a step   *)
(* of a task is one stretch of code between two points where other tasks   *)
(* can observe or change the shared collection (the lock().await points    *)
(* and the drops of the guard).                                            *)
(***************************************************************************)
EXTENDS Integers, Sequences, FiniteSets, TLC

(***************************************************************************)
(* Bounds of the model.                                                    *)
(***************************************************************************)
\* number of requests of a run; each is served by a handler task of its own
NumHandlers == 2
\* size of the identifier space the generator draws from
NumIds == 2

(***************************************************************************)
(* Program constants.                                                      *)
(***************************************************************************)
\* customer.rs:151  name.len() < 2
NAME_MIN == 2
\* customer.rs:151  name.len() > 200
NAME_MAX == 200
\* customer.rs:192  email.len() > 5
EMAIL_MIN == 5

Handlers == 1..NumHandlers
Ids == 1..NumIds
\* no task holds the lock
NoHandler == 0

None == <<>>
Some(x) == <<x>>

(***************************************************************************)
(* Strings.  A string is the sequence of its runs: a run is a character    *)
(* and the number of times it is repeated, and neighbouring runs have      *)
(* different characters, so that equal strings are equal sequences.        *)
(* Rust's String::len() is the length in bytes of the UTF-8 encoding;      *)
(* String::contains(char) is a search for the character.                   *)
(***************************************************************************)
\* characters whose UTF-8 encoding takes two bytes
TwoByteChars == {"e_acute"}

Utf8Len(ch) == IF ch \in TwoByteChars THEN 2 ELSE 1

RECURSIVE len(_)
len(s) ==
    IF s = <<>> THEN 0 ELSE s[1].n * Utf8Len(s[1].ch) + len(Tail(s))

contains(s, ch) == \E i \in 1..Len(s) : s[i].ch = ch /\ s[i].n > 0

\* the string of n times the character ch
Rep(ch, n) == <<[ch |-> ch, n |-> n]>>

(***************************************************************************)
(* The Customer entity.                                                    *)
(***************************************************************************)
Address(zip, location, address) ==
    [zip |-> zip, location |-> location, address |-> address]

Ok(v) == [ok |-> TRUE, val |-> v]
\* an error: the variant of ServiceError (or the code of the Status) and
\* its message
Error(kind, message) == [kind |-> kind, message |-> message]
Err(e) == [ok |-> FALSE, err |-> e]

\* customer.rs:145, 153, 197: the messages of the validation errors
MsgEmail == "Nem megfelelo email cim"
MsgName == "A nev hosszusaga legalabb 2 max 200 karakter"
MsgEmailFormat == "Rossz email formatum"

\* Customer::new without the check of the name's length
CustomerNewNameUnchecked(id, name, email, phone, tax_number, address, created_by, now) ==
    IF len(email) > 0 /\ (~contains(email, "@") \/ ~contains(email, "."))
    THEN Err(Error("BadRequest", MsgEmail))
    ELSE Ok([id |-> id, name |-> name, email |-> email, phone |-> phone,
             tax_number |-> tax_number, address |-> address,
             date_created |-> now, created_by |-> created_by,
             has_user |-> FALSE, users |-> <<>>])

\* Customer::new: the email is checked first, then the name; the entity is
\* stamped with the current time and starts without users.
CustomerNew(id, name, email, phone, tax_number, address, created_by, now) ==
    IF len(email) > 0 /\ (~contains(email, "@") \/ ~contains(email, "."))
    THEN Err(Error("BadRequest", MsgEmail))
    ELSE IF len(name) > NAME_MAX \/ len(name) < NAME_MIN
    THEN Err(Error("BadRequest", MsgName))
    ELSE Ok([id |-> id, name |-> name, email |-> email, phone |-> phone,
             tax_number |-> tax_number, address |-> address,
             date_created |-> now, created_by |-> created_by,
             has_user |-> FALSE, users |-> <<>>])

set_name(c, name) == [c EXCEPT !.name = name]

\* set_email: an empty argument is accepted and writes nothing.
set_email(c, email) ==
    IF len(email) > 0
    THEN IF contains(email, "@") /\ contains(email, ".") /\ len(email) > EMAIL_MIN
         THEN Ok([c EXCEPT !.email = email])
         ELSE Err(Error("BadRequest", MsgEmailFormat))
    ELSE Ok(c)

\* set_phone writing the wrong field
set_phone_created_by(c, phone) == [c EXCEPT !.created_by = phone]

set_phone(c, phone) == [c EXCEPT !.phone = phone]

set_tax_number(c, tax_number) == [c EXCEPT !.tax_number = tax_number]

set_address(c, address) == [c EXCEPT !.address = address]

\* TaxNumber -> String and Option<TaxNumber> -> String (None gives "").
TaxNumberToString(t) == t.number

\* DateTime<Utc>::to_rfc3339
to_rfc3339(t) == <<"rfc3339", t>>

\* From<&Customer> for CustomerObj
CustomerObj(u) ==
    [id |-> u.id,
     date_created |-> to_rfc3339(u.date_created),
     created_by |-> u.created_by,
     name |-> u.name,
     address |-> Some(u.address),
     email |-> u.email,
     phone |-> u.phone,
     tax_number |-> IF u.tax_number = None THEN ""
                    ELSE TaxNumberToString(u.tax_number[1]),
     has_user |-> u.has_user,
     users |-> u.users]

(***************************************************************************)
(* Collaborators whose code is outside src/.                               *)
(***************************************************************************)
\* raw strings the tax number validator accepts
ValidTaxNumbers == {"12345678-1-12"}

\* TaxNumber::new(raw): the validated tax number, or a validation failure.
TaxNumberNew(raw) ==
    IF raw \in ValidTaxNumbers
    THEN Ok([number |-> raw])
    ELSE Err(Error("BadRequest", "invalid tax number"))

\* VecPack::find_id / find_id_mut: the position of the first record with
\* the id, 0 when there is none.
find_id(vec, id) ==
    IF \E i \in 1..Len(vec) : vec[i].id = id
    THEN CHOOSE i \in 1..Len(vec) :
            vec[i].id = id /\ \A j \in 1..(i - 1) : vec[j].id # id
    ELSE 0

\* VecPack::insert: keyed insert, refused when the id is already stored.
insert(vec, c) ==
    IF find_id(vec, c.id) = 0
    THEN Ok(Append(vec, c))
    ELSE Err(Error("Internal", "id taken"))

\* id::generate_alphanumeric(7): any identifier of the id space.
generate_alphanumeric == Ids

(***************************************************************************)
(* Request values the handlers are driven with.                            *)
(***************************************************************************)
\* names: 1, 2, 200 and 201 bytes long, and a second ordinary name
NameA == Rep("A", 1)
NameAb == Rep("A", 1) \o Rep("b", 1)
NameCd == Rep("C", 1) \o Rep("d", 1)
Name200 == Rep("x", 200)
Name201 == Rep("x", 201)

\* emails: empty, without '@' and '.', 5 bytes with both, 6 bytes with both
EmailEmpty == <<>>
EmailBad == Rep("a", 1) \o Rep("b", 1) \o Rep("c", 1)
EmailFive == Rep("a", 1) \o Rep("@", 1) \o Rep("b", 1) \o Rep(".", 1)
             \o Rep("c", 1)
EmailSix == Rep("c", 1) \o Rep("@", 1) \o Rep("d", 1) \o Rep(".", 1)
            \o Rep("e", 2)

TaxGood == "12345678-1-12"
TaxBad == "not-a-tax-number"

\* CreateNewRequest
CreateBase ==
    [name |-> Name200, email |-> EmailFive, phone |-> "p1",
     tax_number |-> TaxGood,
     zip |-> "1000", location |-> "City", address |-> "Main 1",
     created_by |-> "u1"]

CreateRequests ==
    { CreateBase,
      [CreateBase EXCEPT !.name = NameA],
      [CreateBase EXCEPT !.name = Name201],
      [CreateBase EXCEPT !.email = EmailBad],
      [CreateBase EXCEPT !.tax_number = TaxBad] }

\* CustomerUpdateObj, the customer of an UpdateByIdRequest
UpdateBase(cid) ==
    [id |-> cid, name |-> NameCd, email |-> EmailSix, phone |-> "p2",
     tax_number |-> TaxGood,
     address |-> Some(Address("2000", "Town", "Side 2"))]

\* UpdateByIdRequest.customer : Option<CustomerUpdateObj>
UpdateRequests ==
    { None,
      Some([UpdateBase(1) EXCEPT !.tax_number = TaxBad]),
      Some([UpdateBase(1) EXCEPT !.address = None]),
      Some([UpdateBase(1) EXCEPT !.email = EmailFive]) }
    \cup
    UNION { { Some(UpdateBase(cid)),
              Some([UpdateBase(cid) EXCEPT !.email = EmailEmpty,
                                           !.tax_number = ""]),
              Some([UpdateBase(cid) EXCEPT !.name = NameA]),
              Some([UpdateBase(cid) EXCEPT !.email = EmailBad]) }
            : cid \in Ids }

\* values Utc::now() returns
Times == {1, 2}

(***************************************************************************)
(* State.                                                                  *)
(***************************************************************************)
VARIABLES
    \* CustomerService.customers: the records of the VecPack, in order
    customers,
    \* the task holding the Mutex of customers, NoHandler when it is free
    lock,
    \* where each handler task stands
    pc,
    \* the operation each handler serves and its request
    op, request,
    \* create_new_customer's local id and new_customer
    id, new_customer,
    \* the Result each handler returned
    response,
    \* for each id the number of writes to its record so far, and for each
    \* handler the number of writes to the record it asked for that its
    \* critical section came after (its own write included)
    writes, seen,
    \* the process: "running", "shutdown" once main has sent the shutdown
    \* signal and returned, "exited"
    process

vars == <<customers, lock, pc, op, request, id, new_customer, response,
          writes, seen, process>>

NoRequest == None
NoId == 0

Init ==
    /\ customers = <<>>
    /\ lock = NoHandler
    /\ pc = [h \in Handlers |-> "idle"]
    /\ op = [h \in Handlers |-> "none"]
    /\ request = [h \in Handlers |-> NoRequest]
    /\ id = [h \in Handlers |-> NoId]
    /\ new_customer = [h \in Handlers |-> None]
    /\ response = [h \in Handlers |-> None]
    /\ writes = [i \in Ids |-> 0]
    /\ seen = [h \in Handlers |-> 0]
    /\ process = "running"

\* a handler returns the Result r
Return(h, r) ==
    /\ pc' = [pc EXCEPT ![h] = "done"]
    /\ response' = [response EXCEPT ![h] = Some(r)]

Failure(e) == [status |-> e.kind, message |-> e.message, customer |-> None]
Success(obj) == [status |-> "Ok", customer |-> Some(obj)]

\* the record stored under an id, if there is one
Stored(cs, i) ==
    IF find_id(cs, i) = 0 THEN None ELSE Some(cs[find_id(cs, i)])

\* the bookkeeping of a critical section of handler h on the record i that
\* leaves the collection as cs: every record that differs is counted as
\* written once more
Written(h, i, cs) ==
    /\ writes' = [j \in Ids |-> IF Stored(cs, j) # Stored(customers, j)
                                THEN writes[j] + 1 ELSE writes[j]]
    /\ seen' = [seen EXCEPT ![h] = IF i \in Ids THEN writes'[i] ELSE 0]

\* a request arrives and its handler task starts
Accept(h, o, r) ==
    /\ pc[h] = "idle"
    /\ process = "running"
    /\ UNCHANGED process
    /\ op' = [op EXCEPT ![h] = o]
    /\ request' = [request EXCEPT ![h] = Some(r)]

(***************************************************************************)
(* create_new -> create_new_customer                                       *)
(***************************************************************************)
\* main.rs:70-73: the tax number of the request is checked first
CreateNew(h, u) ==
    /\ Accept(h, "create", u)
    /\ UNCHANGED <<writes, seen>>
    /\ IF Len(u.tax_number) > 0 /\ ~TaxNumberNew(u.tax_number).ok
       THEN Return(h, Failure(TaxNumberNew(u.tax_number).err))
       ELSE /\ pc' = [pc EXCEPT ![h] = "loop"]
            /\ UNCHANGED response
    /\ UNCHANGED <<customers, lock, id, new_customer>>

\* a generator that proposes the same identifier every time
GenerateIdConstant(h, candidate) ==
    /\ pc[h] = "loop"
    /\ process # "exited"
    /\ UNCHANGED process
    /\ UNCHANGED <<writes, seen>>
    /\ lock = NoHandler
    /\ lock' = h
    /\ id' = [id EXCEPT ![h] = 1]
    /\ pc' = [pc EXCEPT ![h] = "is_id_available"]
    /\ UNCHANGED <<customers, op, request, new_customer,
                   response>>

\* main.rs:78-79: a candidate id is generated and is_id_available takes the
\* lock
GenerateId(h, candidate) ==
    /\ pc[h] = "loop"
    /\ process # "exited"
    /\ UNCHANGED process
    /\ UNCHANGED <<writes, seen>>
    /\ lock = NoHandler
    /\ lock' = h
    /\ id' = [id EXCEPT ![h] = candidate]
    /\ pc' = [pc EXCEPT ![h] = "is_id_available"]
    /\ UNCHANGED <<customers, op, request, new_customer,
                   response>>

\* main.rs:107: is_id_available looks the candidate up and drops the guard;
\* main.rs:79-81: the loop ends when the candidate is not stored
IsIdAvailable(h) ==
    /\ pc[h] = "is_id_available"
    /\ process # "exited"
    /\ UNCHANGED process
    /\ UNCHANGED <<writes, seen>>
    /\ lock = h
    /\ lock' = NoHandler
    /\ pc' = [pc EXCEPT ![h] = IF find_id(customers, id[h]) = 0
                               THEN "new" ELSE "loop"]
    /\ UNCHANGED <<customers, op, request, id, new_customer,
                   response>>

\* main.rs:85-93: the entity is constructed and validated
NewCustomer(h, now) ==
    /\ pc[h] = "new"
    /\ process # "exited"
    /\ UNCHANGED process
    /\ UNCHANGED <<writes, seen>>
    /\ LET u == request[h][1]
           taxnumber == IF Len(u.tax_number) > 0
                        THEN Some(TaxNumberNew(u.tax_number).val)
                        ELSE None
           r == CustomerNew(id[h], u.name, u.email, u.phone, taxnumber,
                            Address(u.zip, u.location, u.address),
                            u.created_by, now)
       IN  IF r.ok
           THEN /\ new_customer' = [new_customer EXCEPT ![h] = Some(r.val)]
                /\ pc' = [pc EXCEPT ![h] = "store"]
                /\ UNCHANGED response
           ELSE /\ Return(h, Failure(r.err))
                /\ UNCHANGED new_customer
    /\ UNCHANGED <<customers, lock, op, request, id>>

\* main.rs:98: self.customers.lock().await
LockForInsert(h) ==
    /\ pc[h] = "store"
    /\ process # "exited"
    /\ UNCHANGED process
    /\ UNCHANGED <<writes, seen>>
    /\ lock = NoHandler
    /\ lock' = h
    /\ pc' = [pc EXCEPT ![h] = "insert"]
    /\ UNCHANGED <<customers, op, request, id, new_customer,
                   response>>

\* Insert with the refusal of the insert dropped: Ok is returned whatever
\* the insert said
InsertIgnoringRefusal(h) ==
    /\ pc[h] = "insert"
    /\ process # "exited"
    /\ UNCHANGED process
    /\ lock = h
    /\ lock' = NoHandler
    /\ LET c == new_customer[h][1]
           r == insert(customers, c)
       IN  /\ customers' = IF r.ok THEN r.val ELSE customers
           /\ Return(h, Success(CustomerObj(c)))
    /\ UNCHANGED <<op, request, id, new_customer>>
    /\ Written(h, new_customer[h][1].id, customers')

\* Insert with the record pushed to the collection without the keyed insert
InsertUnkeyed(h) ==
    /\ pc[h] = "insert"
    /\ process # "exited"
    /\ UNCHANGED process
    /\ lock = h
    /\ lock' = NoHandler
    /\ LET c == new_customer[h][1]
       IN  /\ customers' = Append(customers, c)
           /\ Return(h, Success(CustomerObj(c)))
    /\ UNCHANGED <<op, request, id, new_customer>>
    /\ Written(h, new_customer[h][1].id, customers')

\* main.rs:95-101: the record is inserted, the guard dropped, and the
\* customer object made before the insert returned; a refused insert is
\* returned as the error
Insert(h) ==
    /\ pc[h] = "insert"
    /\ process # "exited"
    /\ UNCHANGED process
    /\ lock = h
    /\ lock' = NoHandler
    /\ LET c == new_customer[h][1]
           r == insert(customers, c)
       IN  IF r.ok
           THEN /\ customers' = r.val
                /\ Return(h, Success(CustomerObj(c)))
           ELSE /\ Return(h, Failure(r.err))
                /\ UNCHANGED customers
    /\ UNCHANGED <<op, request, id, new_customer>>
    /\ Written(h, new_customer[h][1].id, customers')

(***************************************************************************)
(* update_by_id                                                            *)
(***************************************************************************)
\* main.rs:161-173: the request is taken apart before the lock is asked
\* for: the customer object must be there, a non-empty tax number must be
\* valid, and the address must be there
UpdateById(h, r) ==
    /\ Accept(h, "update", r)
    /\ UNCHANGED <<writes, seen>>
    /\ IF r = None
       THEN Return(h, Failure(Error("Internal",
                                    "Request has an empty customer object")))
       ELSE LET _customer == r[1] IN
            IF Len(_customer.tax_number) > 0
               /\ ~TaxNumberNew(_customer.tax_number).ok
            THEN Return(h, Failure(TaxNumberNew(_customer.tax_number).err))
            ELSE IF _customer.address = None
            THEN Return(h, Failure(Error("Internal",
                                         "Missing address from message")))
            ELSE /\ pc' = [pc EXCEPT ![h] = "update"]
                 /\ UNCHANGED response
    /\ UNCHANGED <<customers, lock, id, new_customer>>

\* a lock that is handed out while another handler holds it
LockForUpdateBarging(h) ==
    /\ pc[h] = "update"
    /\ process # "exited"
    /\ UNCHANGED process
    /\ UNCHANGED <<writes, seen>>
    /\ lock' = h
    /\ pc' = [pc EXCEPT ![h] = "update_locked"]
    /\ UNCHANGED <<customers, op, request, id, new_customer,
                   response>>

\* main.rs:174: let mut lock = self.customers.lock().await
LockForUpdate(h) ==
    /\ pc[h] = "update"
    /\ process # "exited"
    /\ UNCHANGED process
    /\ UNCHANGED <<writes, seen>>
    /\ lock = NoHandler
    /\ lock' = h
    /\ pc' = [pc EXCEPT ![h] = "update_locked"]
    /\ UNCHANGED <<customers, op, request, id, new_customer,
                   response>>

\* main.rs:180-188: the setters run in the order name, email, phone, tax
\* number, address on the stored record itself; set_email's error ends the
\* block with what was written before it
ApplyUpdate(c, _customer, taxnumber, _address) ==
    LET named == set_name(c, _customer.name)
        mailed == set_email(named, _customer.email)
    IN  IF mailed.ok
        THEN Ok(set_address(
                    set_tax_number(set_phone(mailed.val, _customer.phone),
                                   taxnumber),
                    _address))
        ELSE [ok |-> FALSE, err |-> mailed.err, val |-> named]

\* Update with the error of the lookup passed on as it is, not turned into
\* NotFound
UpdateLookupErrorPassedOn(h) ==
    /\ pc[h] = "update_locked"
    /\ process # "exited"
    /\ UNCHANGED process
    /\ lock = h
    /\ lock' = NoHandler
    /\ LET _customer == request[h][1][1]
           taxnumber == IF Len(_customer.tax_number) > 0
                        THEN Some(TaxNumberNew(_customer.tax_number).val)
                        ELSE None
           _address == _customer.address[1]
           at == find_id(customers, _customer.id)
       IN  IF at = 0
           THEN /\ Return(h, Failure(Error("Internal", "id not found")))
                /\ UNCHANGED customers
           ELSE LET r == ApplyUpdate(customers[at], _customer, taxnumber,
                                     _address)
                IN  /\ customers' = [customers EXCEPT ![at] = r.val]
                    /\ IF r.ok
                       THEN Return(h, Success(CustomerObj(r.val)))
                       ELSE Return(h, Failure(r.err))
    /\ UNCHANGED <<op, request, id, new_customer>>
    /\ Written(h, request[h][1][1].id, customers')

\* an update whose error return keeps the guard
UpdateKeepingLockOnError(h) ==
    /\ pc[h] = "update_locked"
    /\ process # "exited"
    /\ UNCHANGED process
    /\ lock = h
    /\ LET _customer == request[h][1][1]
           taxnumber == IF Len(_customer.tax_number) > 0
                        THEN Some(TaxNumberNew(_customer.tax_number).val)
                        ELSE None
           _address == _customer.address[1]
           at == find_id(customers, _customer.id)
       IN  IF at = 0
           THEN /\ Return(h, Failure(Error("NotFound", "id not found")))
                /\ UNCHANGED <<customers, lock>>
           ELSE LET r == ApplyUpdate(customers[at], _customer, taxnumber,
                                     _address)
                IN  /\ customers' = [customers EXCEPT ![at] = r.val]
                    /\ IF r.ok
                       THEN /\ Return(h, Success(CustomerObj(r.val)))
                            /\ lock' = NoHandler
                       ELSE /\ Return(h, Failure(r.err))
                            /\ UNCHANGED lock
    /\ UNCHANGED <<op, request, id, new_customer>>
    /\ Written(h, request[h][1][1].id, customers')

\* main.rs:175-196: under the lock the record is looked up and changed in
\* place; every return drops the guard
Update(h) ==
    /\ pc[h] = "update_locked"
    /\ process # "exited"
    /\ UNCHANGED process
    /\ lock = h
    /\ lock' = NoHandler
    /\ LET _customer == request[h][1][1]
           taxnumber == IF Len(_customer.tax_number) > 0
                        THEN Some(TaxNumberNew(_customer.tax_number).val)
                        ELSE None
           _address == _customer.address[1]
           at == find_id(customers, _customer.id)
       IN  IF at = 0
           THEN /\ Return(h, Failure(Error("NotFound", "id not found")))
                /\ UNCHANGED customers
           ELSE LET r == ApplyUpdate(customers[at], _customer, taxnumber,
                                     _address)
                IN  /\ customers' = [customers EXCEPT ![at] = r.val]
                    /\ IF r.ok
                       THEN Return(h, Success(CustomerObj(r.val)))
                       ELSE Return(h, Failure(r.err))
    /\ UNCHANGED <<op, request, id, new_customer>>
    /\ Written(h, request[h][1][1].id, customers')

(***************************************************************************)
(* get_by_id and get_all                                                   *)
(***************************************************************************)
\* main.rs:143-146: the request arrives and the lock is asked for
GetById(h, customer_id) ==
    /\ Accept(h, "get_by_id", customer_id)
    /\ UNCHANGED <<writes, seen>>
    /\ pc' = [pc EXCEPT ![h] = "get_by_id"]
    /\ UNCHANGED <<customers, lock, id, new_customer, response>>

LockForGetById(h) ==
    /\ pc[h] = "get_by_id"
    /\ process # "exited"
    /\ UNCHANGED process
    /\ UNCHANGED <<writes, seen>>
    /\ lock = NoHandler
    /\ lock' = h
    /\ pc' = [pc EXCEPT ![h] = "get_by_id_locked"]
    /\ UNCHANGED <<customers, op, request, id, new_customer,
                   response>>

\* a lookup that marks the record it has read
FindByIdMarking(h) ==
    /\ pc[h] = "get_by_id_locked"
    /\ process # "exited"
    /\ UNCHANGED process
    /\ seen' = [seen EXCEPT ![h] = writes[request[h][1]]]
    /\ UNCHANGED writes
    /\ lock = h
    /\ lock' = NoHandler
    /\ LET at == find_id(customers, request[h][1])
       IN  IF at = 0
           THEN /\ Return(h, Failure(Error("NotFound",
                                           "Customer not found")))
                /\ UNCHANGED customers
           ELSE /\ Return(h, Success(CustomerObj(customers[at])))
                /\ customers' = [customers EXCEPT ![at].phone = "read"]
    /\ UNCHANGED <<op, request, id, new_customer>>

\* a lookup that answers with the first record of the collection
FindByIdFirstRecord(h) ==
    /\ pc[h] = "get_by_id_locked"
    /\ process # "exited"
    /\ UNCHANGED process
    /\ seen' = [seen EXCEPT ![h] = writes[request[h][1]]]
    /\ UNCHANGED writes
    /\ lock = h
    /\ lock' = NoHandler
    /\ IF Len(customers) = 0
       THEN Return(h, Failure(Error("NotFound", "Customer not found")))
       ELSE Return(h, Success(CustomerObj(customers[1])))
    /\ UNCHANGED <<customers, op, request, id, new_customer>>

\* main.rs:147-154: the lookup, its NotFound, and the copy that is returned
FindById(h) ==
    /\ pc[h] = "get_by_id_locked"
    /\ process # "exited"
    /\ UNCHANGED process
    /\ seen' = [seen EXCEPT ![h] = writes[request[h][1]]]
    /\ UNCHANGED writes
    /\ lock = h
    /\ lock' = NoHandler
    /\ LET at == find_id(customers, request[h][1])
       IN  IF at = 0
           THEN Return(h, Failure(Error("NotFound", "Customer not found")))
           ELSE Return(h, Success(CustomerObj(customers[at])))
    /\ UNCHANGED <<customers, op, request, id, new_customer>>

\* main.rs:126-129
GetAll(h) ==
    /\ Accept(h, "get_all", <<>>)
    /\ UNCHANGED <<writes, seen>>
    /\ pc' = [pc EXCEPT ![h] = "get_all"]
    /\ UNCHANGED <<customers, lock, id, new_customer, response>>

LockForGetAll(h) ==
    /\ pc[h] = "get_all"
    /\ process # "exited"
    /\ UNCHANGED process
    /\ UNCHANGED <<writes, seen>>
    /\ lock = NoHandler
    /\ lock' = h
    /\ pc' = [pc EXCEPT ![h] = "get_all_locked"]
    /\ UNCHANGED <<customers, op, request, id, new_customer,
                   response>>

\* main.rs:130-136: every record is copied out, in the order of the
\* collection
CollectAll(h) ==
    /\ pc[h] = "get_all_locked"
    /\ process # "exited"
    /\ UNCHANGED process
    /\ UNCHANGED <<writes, seen>>
    /\ lock = h
    /\ lock' = NoHandler
    /\ Return(h, [status |-> "Ok",
                  customers |-> [i \in 1..Len(customers) |->
                                    CustomerObj(customers[i])]])
    /\ UNCHANGED <<customers, op, request, id, new_customer>>

(***************************************************************************)
(* add_user and remove_user                                                *)
(***************************************************************************)
\* a remove_user that would drop the last record of the collection
TodoRemovingUser(h) ==
    /\ pc' = [pc EXCEPT ![h] = "panicked"]
    /\ customers' = SubSeq(customers, 1, Len(customers) - 1)
    /\ UNCHANGED <<lock, id, new_customer, response, writes, seen>>

\* todo!(): the handler panics with "not yet implemented"; the task ends
\* without a Result, having touched neither the lock nor the collection
Todo(h) ==
    /\ pc' = [pc EXCEPT ![h] = "panicked"]
    /\ UNCHANGED <<customers, lock, id, new_customer, response, writes,
                   seen>>

\* main.rs:198-203
AddUser(h) ==
    /\ Accept(h, "add_user", <<>>)
    /\ Todo(h)

\* main.rs:205-210
RemoveUser(h) ==
    /\ Accept(h, "remove_user", <<>>)
    /\ Todo(h)

(***************************************************************************)
(* The server.                                                             *)
(***************************************************************************)
Next ==
    \E h \in Handlers :
        \/ \E u \in CreateRequests : CreateNew(h, u)
        \/ \E candidate \in generate_alphanumeric : GenerateId(h, candidate)
        \/ IsIdAvailable(h)
        \/ \E now \in Times : NewCustomer(h, now)
        \/ LockForInsert(h)
        \/ Insert(h)
        \/ \E r \in UpdateRequests : UpdateById(h, r)
        \/ LockForUpdate(h)
        \/ Update(h)
        \/ \E customer_id \in Ids : GetById(h, customer_id)
        \/ LockForGetById(h)
        \/ FindById(h)
        \/ GetAll(h)
        \/ LockForGetAll(h)
        \/ CollectAll(h)
        \/ AddUser(h)
        \/ RemoveUser(h)

Spec == Init /\ [][Next]_vars

(***************************************************************************)
(* The server started on a directory that an earlier run left on disk.     *)
(***************************************************************************)
\* main.rs:216-218: the collection is loaded from data/customers; it is
\* empty on the first start and otherwise holds what earlier creates stored
LoadedDirectories ==
    { <<>>,
      <<CustomerNew(1, CreateBase.name, CreateBase.email, CreateBase.phone,
                    Some(TaxNumberNew(CreateBase.tax_number).val),
                    Address(CreateBase.zip, CreateBase.location,
                            CreateBase.address),
                    CreateBase.created_by, 1).val>> }

LoadedInit ==
    /\ customers \in LoadedDirectories
    /\ lock = NoHandler
    /\ pc = [h \in Handlers |-> "idle"]
    /\ op = [h \in Handlers |-> "none"]
    /\ request = [h \in Handlers |-> NoRequest]
    /\ id = [h \in Handlers |-> NoId]
    /\ new_customer = [h \in Handlers |-> None]
    /\ response = [h \in Handlers |-> None]
    /\ writes = [i \in Ids |-> 0]
    /\ seen = [h \in Handlers |-> 0]
    /\ process = "running"

\* the requests of the clients of a loaded directory
LoadedUpdateRequests ==
    { Some(UpdateBase(1)),
      Some([UpdateBase(1) EXCEPT !.email = EmailEmpty, !.tax_number = ""]),
      Some([UpdateBase(1) EXCEPT !.email = EmailBad]) }

LoadedNext ==
    \E h \in Handlers :
        \/ CreateNew(h, CreateBase)
        \/ \E candidate \in generate_alphanumeric : GenerateId(h, candidate)
        \/ IsIdAvailable(h)
        \/ \E now \in Times : NewCustomer(h, now)
        \/ LockForInsert(h)
        \/ Insert(h)
        \/ \E r \in LoadedUpdateRequests : UpdateById(h, r)
        \/ LockForUpdate(h)
        \/ Update(h)
        \/ \E customer_id \in Ids : GetById(h, customer_id)
        \/ LockForGetById(h)
        \/ FindById(h)
        \/ GetAll(h)
        \/ LockForGetAll(h)
        \/ CollectAll(h)

LoadedSpec == LoadedInit /\ [][LoadedNext]_vars

(***************************************************************************)
(* The server under a fair scheduler.                                      *)
(***************************************************************************)
\* the requests of the clients whose calls are followed to their return
FairUpdateRequests ==
    { Some(UpdateBase(1)), Some([UpdateBase(1) EXCEPT !.email = EmailBad]) }

FairNext ==
    \E h \in Handlers :
        \/ CreateNew(h, CreateBase)
        \/ \E candidate \in generate_alphanumeric : GenerateId(h, candidate)
        \/ IsIdAvailable(h)
        \/ NewCustomer(h, 1)
        \/ LockForInsert(h)
        \/ Insert(h)
        \/ \E r \in FairUpdateRequests : UpdateById(h, r)
        \/ LockForUpdate(h)
        \/ Update(h)

\* a step of a handler that does not wait for anything
Poll ==
    \E h \in Handlers :
        IsIdAvailable(h) \/ NewCustomer(h, 1) \/ Insert(h) \/ Update(h)

\* a handler gets the lock it waits for at main.rs:98 or main.rs:174
Acquire == \E h \in Handlers : LockForInsert(h) \/ LockForUpdate(h)

\* a handler gets the lock of is_id_available (main.rs:107) for the
\* candidate that the generator proposed (main.rs:78)
Propose(candidate) == \E h \in Handlers : GenerateId(h, candidate)

\* tokio polls a spawned task that is ready, so a handler that can step
\* without waiting does; its Mutex hands the lock out in the order of the
\* requests, so a lock that is free again and again goes to a handler that
\* waits for it; and the generator proposes every identifier again and
\* again.  Each conjunct follows from the same condition on every single
\* handler.
Fairness ==
    /\ WF_vars(Poll)
    /\ SF_vars(Acquire)
    /\ \A candidate \in generate_alphanumeric : SF_vars(Propose(candidate))

FairSpec == LoadedInit /\ [][FairNext]_vars /\ Fairness

(***************************************************************************)
(* Shutdown.                                                               *)
(***************************************************************************)
\* handler h is in the middle of a poll on a worker thread: it is past the
\* .await of a lock (main.rs:98, 107, 129, 143, 174) and has not come to
\* its next .await or to its return; update_by_id with its setters
\* (main.rs:175-195) and insert (main.rs:98) have no .await after the lock
PollingAwaitInUpdate(h) ==
    pc[h] \in {"is_id_available", "new", "insert", "get_by_id_locked",
               "get_all_locked"}

Polling(h) ==
    pc[h] \in {"is_id_available", "new", "insert", "update_locked",
               "get_by_id_locked", "get_all_locked"}

\* main.rs:241-246: ctrl_c() completes and main sends the shutdown signal
Sigint ==
    /\ process = "running"
    /\ process' = "shutdown"
    /\ UNCHANGED <<customers, lock, pc, op, request, id, new_customer,
                   response, writes, seen>>

\* main.rs:213-214, 248: main returns Ok(()) without joining the server
\* task; #[tokio::main] then drops the runtime, which lets every worker
\* finish the poll it is in, drops the tasks that are at an .await, and
\* only then lets the process end
Exit ==
    /\ process = "shutdown"
    /\ \A h \in Handlers : ~Polling(h)
    /\ process' = "exited"
    /\ UNCHANGED <<customers, lock, pc, op, request, id, new_customer,
                   response, writes, seen>>

ShutdownNext ==
    \/ \E h \in Handlers :
          \/ CreateNew(h, CreateBase)
          \/ \E candidate \in generate_alphanumeric : GenerateId(h, candidate)
          \/ IsIdAvailable(h)
          \/ NewCustomer(h, 1)
          \/ LockForInsert(h)
          \/ Insert(h)
          \/ \E r \in FairUpdateRequests : UpdateById(h, r)
          \/ LockForUpdate(h)
          \/ Update(h)
          \/ GetById(h, 1)
          \/ LockForGetById(h)
          \/ FindById(h)
    \/ Sigint
    \/ Exit

ShutdownSpec == LoadedInit /\ [][ShutdownNext]_vars

(***************************************************************************)
(* Properties.                                                             *)
(***************************************************************************)
Done(h, o) == op[h] = o /\ pc[h] = "done"

Status(h) == response[h][1].status

\* the validation rules, as the claims state them
NameInRange(name) == len(name) >= 2 /\ len(name) <= 200

EmailWellFormed(email) ==
    len(email) = 0 \/ (contains(email, "@") /\ contains(email, "."))

TaxNumberWellFormed(raw) == raw = "" \/ raw \in ValidTaxNumbers

CreateInputsValid(u) ==
    /\ NameInRange(u.name)
    /\ EmailWellFormed(u.email)
    /\ TaxNumberWellFormed(u.tax_number)

NoTwoRecordsShareAnId(vec) ==
    \A i, j \in 1..Len(vec) : i # j => vec[i].id # vec[j].id

\* C1: every create call with valid inputs succeeds, whatever the
\* interleaving with the other create calls: the insert of a create is never
\* refused, and every create that has returned has added its record.
C1_ValidCreatesAlwaysSucceed ==
    \A h \in Handlers :
        (Done(h, "create") /\ CreateInputsValid(request[h][1]))
            => /\ Status(h) = "Ok"
               /\ find_id(customers, id[h]) # 0

\* C2: from the successful availability check of a create to its insert the
\* handler holds the lock: a handler that has found its candidate id
\* available and has not inserted yet is the holder of the lock.
C2_CheckAndInsertInOneCriticalSection ==
    \A h \in Handlers : pc[h] \in {"new", "store", "insert"} => lock = h

\* C3: any two create calls that both returned success returned customers
\* with different ids.
C3_SuccessfulCreatesReturnDistinctIds ==
    \A h1, h2 \in Handlers :
        (h1 # h2 /\ Done(h1, "create") /\ Done(h2, "create")
         /\ Status(h1) = "Ok" /\ Status(h2) = "Ok")
            => response[h1][1].customer[1].id # response[h2][1].customer[1].id

\* two create calls have both returned success
C3_Witness ==
    \E h1, h2 \in Handlers :
        /\ h1 # h2
        /\ Done(h1, "create") /\ Done(h2, "create")
        /\ Status(h1) = "Ok" /\ Status(h2) = "Ok"

\* C4: in every reachable state the directory holds at most one record per
\* id.
C4_OneRecordPerId == NoTwoRecordsShareAnId(customers)

\* a create came to its insert with an id that another create had stored in
\* the meantime, and the insert was refused
C4_Witness ==
    /\ Len(customers) >= 1
    /\ \E h \in Handlers : Done(h, "create") /\ Status(h) = "Internal"

\* the step in which handler h returns from operation o
Returns(h, o) == op'[h] = o /\ pc[h] # "done" /\ pc'[h] = "done"

\* C5: an update_by_id of an existing customer that returns a failure
\* leaves the stored record, and with it the whole directory, exactly as it
\* was before the call.
C5_FailedUpdateLeavesRecordUnchanged ==
    [][\A h \in Handlers :
          (/\ pc[h] = "update_locked"
           /\ Returns(h, "update")
           /\ find_id(customers, request[h][1][1].id) # 0
           /\ response'[h][1].status # "Ok")
              => customers' = customers]_vars

\* C6: every stored record has a name of 2 to 200 characters and an email
\* that is empty or contains '@' and '.'.
C6_StoredRecordsAreValid ==
    \A i \in 1..Len(customers) :
        NameInRange(customers[i].name) /\ EmailWellFormed(customers[i].email)

\* C7: create and update both enforce the name rule: a request with a name
\* of fewer than 2 or more than 200 characters does not succeed (it fails
\* with the name-length error unless it is rejected for another reason
\* first), and a request with a name of 2 to 200 characters never gets the
\* name-length error.
C7_NameRuleEnforcedByCreateAndUpdate ==
    \A h \in Handlers :
        (pc[h] = "done" /\ op[h] \in {"create", "update"}
         /\ request[h][1] # None)
            => LET name == IF op[h] = "create" THEN request[h][1].name
                           ELSE request[h][1][1].name
               IN  /\ ~NameInRange(name) => Status(h) # "Ok"
                   /\ NameInRange(name) =>
                        ~(Status(h) = "BadRequest"
                          /\ response[h][1].message = MsgName)

\* the record an update request asks for
Requested(u, c) ==
    [c EXCEPT !.name = u.name, !.email = u.email, !.phone = u.phone,
              !.tax_number = IF u.tax_number = "" THEN None
                             ELSE Some([number |-> u.tax_number]),
              !.address = u.address[1]]

\* C8: after an update_by_id that returns success the stored record has
\* the name, email, phone, tax number and address of the request, also when
\* the email or the tax number of the request is empty, and the returned
\* customer shows the same values.
C8_SuccessfulUpdateReplacesAllFields ==
    [][\A h \in Handlers :
          (/\ pc[h] = "update_locked"
           /\ Returns(h, "update")
           /\ response'[h][1].status = "Ok")
              => LET u == request[h][1][1]
                     at == find_id(customers, u.id)
                 IN  /\ customers'[at] = Requested(u, customers[at])
                     /\ response'[h][1].customer[1]
                            = CustomerObj(Requested(u, customers[at]))]_vars

\* the request of an update that carries a customer object with an id that
\* is not stored
UpdateOfAbsentId(h) ==
    /\ Returns(h, "update")
    /\ request'[h][1] # None
    /\ find_id(customers, request'[h][1][1].id) = 0

GetOfAbsentId(h) ==
    /\ Returns(h, "get_by_id")
    /\ find_id(customers, request'[h][1]) = 0

\* C9 as stated: update_by_id with an absent id fails with NotFound whatever
\* the other fields of the request are and leaves the directory unchanged;
\* get_by_id with an absent id fails with NotFound.
C9_AbsentIdIsAlwaysNotFound ==
    [][\A h \in Handlers :
          (UpdateOfAbsentId(h) \/ GetOfAbsentId(h))
              => /\ response'[h][1].status = "NotFound"
                 /\ customers' = customers]_vars

\* C9 amended: update_by_id with an absent id always fails and leaves the
\* directory unchanged; the failure is NotFound when the request has an
\* address and an empty or well-formed tax number, BadRequest when its tax
\* number is malformed, and Internal when its tax number passes and its
\* address is missing (both are checked before the lookup).  get_by_id with
\* an absent id fails with NotFound.
C9_AbsentIdFailsWithoutChange ==
    [][\A h \in Handlers :
          /\ UpdateOfAbsentId(h) =>
                LET u == request'[h][1][1]
                IN  /\ customers' = customers
                    /\ response'[h][1].status =
                          IF ~TaxNumberWellFormed(u.tax_number)
                          THEN "BadRequest"
                          ELSE IF u.address = None THEN "Internal"
                          ELSE "NotFound"
          /\ GetOfAbsentId(h) =>
                /\ customers' = customers
                /\ response'[h][1].status = "NotFound"]_vars

\* an update of an id that is not stored has returned NotFound while
\* another record is stored
C9_Witness ==
    \E h \in Handlers :
        /\ Done(h, "update")
        /\ request[h][1] # None
        /\ find_id(customers, request[h][1][1].id) = 0
        /\ Status(h) = "NotFound"
        /\ Len(customers) >= 1

\* C10: a create call whose inputs fail validation (name length out of
\* range, malformed email or malformed tax number) never takes the lock for
\* the insert, leaves the directory unchanged in each of its steps, and
\* returns BadRequest.
C10_InvalidCreateStoresNothing ==
    [][\A h \in Handlers :
          (/\ op'[h] = "create"
           /\ ~CreateInputsValid(request'[h][1])
           /\ pc'[h] # pc[h])
              => /\ customers' = customers
                 /\ pc'[h] \notin {"store", "insert"}
                 /\ pc'[h] = "done" => response'[h][1].status = "BadRequest"]_vars

\* a create with a name out of range has returned BadRequest while a record
\* is stored
C10_Witness ==
    \E h \in Handlers :
        /\ Done(h, "create")
        /\ ~NameInRange(request[h][1].name)
        /\ Status(h) = "BadRequest"
        /\ Len(customers) >= 1

\* the email rule as C11 states it
EmailRule(email) ==
    len(email) = 0
    \/ (contains(email, "@") /\ contains(email, ".") /\ len(email) > 5)

\* a create that came to Customer::new's check of the email, and an update
\* that came to set_email
CameToEmailCheck(h) ==
    \/ /\ Done(h, "create")
       /\ TaxNumberWellFormed(request[h][1].tax_number)
    \/ /\ Done(h, "update")
       /\ request[h][1] # None
       /\ TaxNumberWellFormed(request[h][1][1].tax_number)
       /\ request[h][1][1].address # None
       /\ Status(h) # "NotFound"

EmailOf(h) ==
    IF op[h] = "create" THEN request[h][1].email ELSE request[h][1][1].email

EmailRejected(h) ==
    /\ Status(h) = "BadRequest"
    /\ response[h][1].message \in {MsgEmail, MsgEmailFormat}

\* C11: construction and set_email apply one email rule: an email is
\* rejected by a create or an update exactly when it is non-empty and lacks
\* '@' or '.' or is not longer than 5 characters, so a create and an update
\* given the same email both accept it or both reject it.
C11_CreateAndUpdateShareTheEmailRule ==
    \A h1, h2 \in Handlers :
        (/\ CameToEmailCheck(h1) /\ op[h1] = "create"
         /\ CameToEmailCheck(h2) /\ op[h2] = "update"
         /\ EmailOf(h1) = EmailOf(h2))
            => /\ EmailRejected(h1) <=> EmailRejected(h2)
               /\ EmailRejected(h2) <=> ~EmailRule(EmailOf(h2))

\* C12: the id, date_created and created_by of a stored record never change:
\* every step (of an update, successful or failed, of a read, of a create)
\* leaves these three fields of every stored record as they were.
C12_IdDateAndCreatorAreImmutable ==
    [][\A i \in 1..Len(customers) :
          /\ i <= Len(customers')
          /\ customers'[i].id = customers[i].id
          /\ customers'[i].date_created = customers[i].date_created
          /\ customers'[i].created_by = customers[i].created_by]_vars

\* an update of a stored record has succeeded and the record shows its name
C12_Witness ==
    \E h \in Handlers :
        /\ Done(h, "update")
        /\ Status(h) = "Ok"
        /\ \E i \in 1..Len(customers) :
              /\ customers[i].id = request[h][1][1].id
              /\ customers[i].name = request[h][1][1].name
              /\ customers[i].created_by = "u1"

\* C14: the directory is append/update-only: a stored id stays stored in
\* every later state, whatever operation steps (failed ones, add_user and
\* remove_user included), the record keeps its place, and the id that a
\* successful create hands out was stored in no record before.
C14_RecordsAreNeverRemoved ==
    [][/\ Len(customers') >= Len(customers)
       /\ \A i \in 1..Len(customers) : customers'[i].id = customers[i].id
       /\ \A h \in Handlers :
             (Returns(h, "create") /\ response'[h][1].status = "Ok")
                => /\ find_id(customers,
                              response'[h][1].customer[1].id) = 0
                   /\ find_id(customers',
                              response'[h][1].customer[1].id) # 0]_vars

\* a record is stored and an add_user or remove_user call has ended
C14_Witness ==
    /\ Len(customers) >= 1
    /\ \E h \in Handlers : op[h] \in {"add_user", "remove_user"}
                           /\ pc[h] = "panicked"

\* C20: add_user and remove_user return an explicit "not yet supported"
\* failure to the caller and leave the directory unchanged, and every stored
\* record has an empty users list and has_user = false.
C20_UsersOperationsFailExplicitly ==
    /\ \A h \in Handlers :
          (op[h] \in {"add_user", "remove_user"} /\ pc[h] # "idle")
              => /\ pc[h] = "done"
                 /\ Status(h) = "Unimplemented"
    /\ \A i \in 1..Len(customers) :
          customers[i].users = <<>> /\ customers[i].has_user = FALSE

\* the positions of a handler between taking the lock and dropping the guard
InCriticalSection(h) ==
    pc[h] \in {"is_id_available", "insert", "update_locked",
               "get_by_id_locked", "get_all_locked"}

\* C15: at most one handler is inside a critical section at any time, the
\* handler inside is the one holding the lock (the finds and iterations are
\* the steps out of a critical section), and every step that writes the
\* collection (insert, field write) is the step with which the holder of
\* the lock ends its critical section.
C15_MutualExclusion ==
    /\ [](\A h1, h2 \in Handlers :
             (InCriticalSection(h1) /\ InCriticalSection(h2)) => h1 = h2)
    /\ [](\A h \in Handlers : InCriticalSection(h) <=> lock = h)
    /\ [][customers' # customers
             => \E h \in Handlers : /\ lock = h
                                    /\ InCriticalSection(h)
                                    /\ ~InCriticalSection(h)'
                                    /\ lock' = NoHandler]_vars

\* one handler is inside its critical section, about to insert, while
\* another waits for the lock
C15_Witness ==
    \E h1, h2 \in Handlers :
        /\ pc[h1] = "insert" /\ lock = h1
        /\ pc[h2] \in {"store", "get_by_id", "get_all", "update"}

\* handler w has returned success from a create or an update of the id i
WroteOk(w, i) ==
    /\ pc[w] = "done"
    /\ op[w] \in {"create", "update"}
    /\ Status(w) = "Ok"
    /\ response[w][1].customer[1].id = i

\* the fields of the returned customer c are the ones that the successful
\* call of w wrote
FieldsWrittenBy(w, c) ==
    IF op[w] = "create"
    THEN LET u == request[w][1]
         IN  /\ c.id = id[w]
             /\ c.name = u.name
             /\ c.email = u.email
             /\ c.phone = u.phone
             /\ c.tax_number = u.tax_number
             /\ c.address = Some(Address(u.zip, u.location, u.address))
             /\ c.created_by = u.created_by
    ELSE LET u == request[w][1][1]
         IN  /\ c.id = u.id
             /\ c.name = u.name
             /\ len(u.email) > 0 => c.email = u.email
             /\ c.phone = u.phone
             /\ c.tax_number = u.tax_number
             /\ c.address = u.address

\* C13: read-after-write: when a create or update_by_id has returned success
\* for id i and the record i has not been written again since, a get_by_id(i)
\* whose lookup comes afterwards returns success with the customer that the
\* call returned, whose fields are the ones that call wrote (for a create:
\* the inputs of the request and the assigned id).
C13_ReadAfterWrite ==
    \A w, g \in Handlers :
        (/\ Done(g, "get_by_id")
         /\ WroteOk(w, request[g][1])
         /\ seen[g] = seen[w])
            => /\ Status(g) = "Ok"
               /\ response[g][1].customer = response[w][1].customer
               /\ FieldsWrittenBy(w, response[g][1].customer[1])

\* an update of a loaded record has returned success and a get_by_id of the
\* same id, whose lookup came after it, has returned
C13_Witness ==
    \E w, g \in Handlers :
        /\ Done(g, "get_by_id")
        /\ WroteOk(w, request[g][1])
        /\ op[w] = "update"
        /\ seen[w] = 1
        /\ seen[g] = 1

\* C16: get_by_id and get_all leave the directory unchanged in each of their
\* steps, and two get_by_id calls of the same id with no write to its record
\* between their lookups return identical values.
C16_ReadsAreIdempotent ==
    /\ [][\A h \in Handlers :
             (op'[h] \in {"get_by_id", "get_all"} /\ pc'[h] # pc[h])
                => customers' = customers]_vars
    /\ [](\A g1, g2 \in Handlers :
             (/\ Done(g1, "get_by_id") /\ Done(g2, "get_by_id")
              /\ request[g1] = request[g2]
              /\ seen[g1] = seen[g2])
                => response[g1] = response[g2])

\* two get_by_id calls of a stored record have returned it, with no write
\* between them
C16_Witness ==
    \E g1, g2 \in Handlers :
        /\ g1 # g2
        /\ Done(g1, "get_by_id") /\ Done(g2, "get_by_id")
        /\ request[g1] = request[g2]
        /\ Status(g1) = "Ok" /\ Status(g2) = "Ok"
        /\ Len(customers) >= 1

\* handler h waits for the lock
Waiting(h) == pc[h] \in {"loop", "store", "update"}

\* C17: a handler that has returned does not hold the lock, whatever it
\* returned (the NotFound and malformed-email errors of update_by_id and the
\* rejected insert of create included), the step with which a handler
\* returns from a critical section frees the lock, and under fair scheduling
\* every handler that waits for the lock gets it.
C17_LockIsReleasedOnEveryExitPath ==
    /\ [](\A h \in Handlers : pc[h] = "done" => lock # h)
    /\ [][\A h \in Handlers :
             (lock = h /\ pc'[h] = "done") => lock' = NoHandler]_vars
    /\ \A h \in Handlers : Waiting(h) ~> (lock = h)

\* an update has returned the malformed-email error from its critical
\* section, and afterwards another handler, which had waited, holds the lock
C17_Witness ==
    \E h1, h2 \in Handlers :
        /\ Done(h1, "update")
        /\ Status(h1) = "BadRequest"
        /\ seen[h1] = 1
        /\ lock = h2
        /\ pc[h2] \in {"insert", "update_locked"}

\* C18: under fair scheduling and a generator that proposes every identifier
\* again and again, every create call returns unless every identifier is
\* stored, and the loop is left only with an identifier that the
\* availability check found unused.
C18_CreateEventuallyReturns ==
    /\ \A h \in Handlers :
          (op[h] = "create")
             ~> (pc[h] = "done" \/ \A i \in Ids : find_id(customers, i) # 0)
    /\ [][\A h \in Handlers :
             (pc[h] \in {"loop", "is_id_available"} /\ pc'[h] = "new")
                => find_id(customers, id'[h]) = 0]_vars

\* a create whose first candidate was taken has gone round the loop and has
\* returned success with another identifier
C18_Witness ==
    \E h \in Handlers :
        /\ Done(h, "create")
        /\ Status(h) = "Ok"
        /\ id[h] # 1
        /\ Len(customers) >= 2

====
